---- MODULE Spec2Model ----
(***************************************************************************)
(* EarlyAllocator<PAGE_SIZE> of arceos/modules/bump_allocator/src/lib.rs:  *)
(* a fixed table of 64 bump regions, a 64-bit bitmap of the active slots,  *)
(* and the byte and page allocation facades over one scan-and-bump loop.   *)
(*                                                                         *)
(* usize is modelled as a WordBits-bit unsigned word (Word = 2^WordBits)   *)
(* with the arithmetic of the two build profiles: overflow_checks = "on"   *)
(* (debug: an overflowing +, * or << panics) and overflow_checks = "off"   *)
(* (release: the result wraps modulo Word).  The u64 bitmap is modelled as *)
(* the set of the indices of its set bits.  A panic aborts the program:    *)
(* ret.kind = "Panic" is a terminal state.                                 *)
(***************************************************************************)
EXTENDS Integers, FiniteSets, Sequences, TLC

\* ------------------------------------------------------------------ bounds
\* width of usize in the model
WordBits == 13
\* calls of init per run
MaxInits == 1
\* calls of add_memory per run under Spec
MaxAdds == 2
\* calls of alloc / alloc_pages per run
MaxAllocs == 2

\* --------------------------------------------------------------- constants
\* number of slots of the region table, and of bits of the bitmap
NSlots == 64
\* the const generic parameter PAGE_SIZE
PAGE_SIZE == 64

Word == 2 ^ WordBits
\* isize::MAX, the largest size a Layout accepts
ISIZE_MAX == (Word \div 2) - 1
Slots == 0 .. (NSlots - 1)

VARIABLES
    bitmap,          \* set of active slots (the set bits of the u64)
    regions,         \* [Slots -> Region]
    current_region,
    total_size,
    used_size,
    overflow_checks, \* build profile: "on", "off", or "unset" while it has not shown
    ret,             \* the last call, what it returned, and the turns of its scan loop
    blocks,          \* history: the blocks handed out since the last init, in order
    sum_sizes,       \* history: sum of the sizes of those blocks
    wrapped,         \* history: an address computation wrapped since the last init
    fresh_slots,     \* history: slots installed since the last init
    n_init, n_add, n_alloc   \* calls made so far

vars == <<bitmap, regions, current_region, total_size, used_size,
          overflow_checks, ret, blocks, sum_sizes, wrapped, fresh_slots,
          n_init, n_add, n_alloc>>

\* ------------------------------------------------------------ machine word
\* a + b on usize: the wrapped value and whether it overflowed
AddW(a, b) == [v |-> (a + b) % Word, ovf |-> (a + b) >= Word]

\* a - b on usize
SubW(a, b) == [v |-> (a - b + Word) % Word, ovf |-> a < b]

\* a * b on usize
MulW(a, b) == [v |-> (a * b) % Word, ovf |-> (a * b) >= Word]

RECURSIVE BitAndN(_, _, _)
BitAndN(x, y, n) ==
    IF n = 0 THEN 0
    ELSE ((x % 2) * (y % 2)) + 2 * BitAndN(x \div 2, y \div 2, n - 1)

\* x & y
BitAnd(x, y) == BitAndN(x, y, WordBits)

\* !x
BitNot(x) == (Word - 1) - x

IsPow2(a) == \E k \in 0 .. (WordBits - 1) : a = 2 ^ k

\* Layout::from_size_align(size, align).is_ok()
LayoutValid(size, align) == IsPow2(align) /\ size <= ISIZE_MAX - (align - 1)

\* ------------------------------------------------------------------ Region
Region(start, end, next) == [start |-> start, end |-> end, next |-> next]

RegionEmpty == Region(0, 0, 0)

\* the error values of the allocator crate that this file returns
AddMemoryFullError == "NoMemory"
AllocNoRoomError == "NoMemory"

NoRet ==
    [op |-> "new", kind |-> "Ok", addr |-> 0, slot |-> 0, a1 |-> 0, a2 |-> 0,
     probes |-> 0]

Ret(op, kind, addr, slot, a1, a2) ==
    [op |-> op, kind |-> kind, addr |-> addr, slot |-> slot, a1 |-> a1, a2 |-> a2,
     probes |-> 0]

\* ------------------------------------------------------------------- stats
total_bytes == total_size

used_bytes == used_size

available_bytes == SubW(total_size, used_size).v

\* EarlyAllocator::new()
Init ==
    /\ bitmap = {}
    /\ regions = [i \in Slots |-> RegionEmpty]
    /\ current_region = 0
    /\ total_size = 0
    /\ used_size = 0
    /\ overflow_checks = "unset"
    /\ ret = NoRet
    /\ blocks = <<>>
    /\ sum_sizes = 0
    /\ wrapped = FALSE
    /\ fresh_slots = {}
    /\ n_init = 0
    /\ n_add = 0
    /\ n_alloc = 0

Running == ret.kind \notin {"Panic", "Hang"}

\* the build profiles this run can still be: overflow-checks on (an overflowing
\* arithmetic operation panics) or off (it wraps).  The profile is fixed for a
\* run; it is recorded at the first overflow, the first point it shows.
Profiles == IF overflow_checks = "unset" THEN {"on", "off"} ELSE {overflow_checks}

ProfileAfter(checks, overflowed) == IF overflowed THEN checks ELSE overflow_checks

\* ------------------------------------------------------------------- init
\* the bug of setting bit 0 without clearing the others: self.bitmap |= 1
InitBitmapKeep == bitmap \cup {0}

\* self.bitmap = 1
InitBitmap == {0}

\* BaseAllocator::init
init(start, size) ==
    /\ Running
    /\ n_init < MaxInits
    /\ n_init' = n_init + 1
    /\ UNCHANGED <<n_add, n_alloc>>
    /\ \E checks \in Profiles : \E e \in {AddW(start, size)} :
       /\ overflow_checks' = ProfileAfter(checks, e.ovf)
       /\ IF checks = "on" /\ e.ovf
          THEN /\ ret' = Ret("init", "Panic", 0, 0, start, size)
               /\ UNCHANGED <<bitmap, regions, current_region, total_size, used_size,
                              blocks, sum_sizes, wrapped, fresh_slots>>
          ELSE /\ regions' = [regions EXCEPT ![0] = Region(start, e.v, start)]
               /\ bitmap' = InitBitmap
               /\ current_region' = 0
               /\ total_size' = size
               /\ used_size' = 0
               /\ ret' = Ret("init", "Ok", 0, 0, start, size)
               /\ blocks' = <<>>
               /\ sum_sizes' = 0
               /\ wrapped' = e.ovf
               /\ fresh_slots' = {0}

\* ------------------------------------------------------------- add_memory
\* while idx < 64 { if (self.bitmap & (1 << idx)) == 0 { .. } idx += 1 }
RECURSIVE FindFree(_)
FindFree(idx) ==
    IF idx < NSlots
    THEN IF idx \notin bitmap THEN idx ELSE FindFree(idx + 1)
    ELSE NSlots

\* the bug of a search from the top of the table: idx runs from 63 down
FreeSlotFromTop ==
    IF bitmap = Slots THEN NSlots
    ELSE CHOOSE i \in Slots \ bitmap : \A k \in Slots \ bitmap : k <= i

\* the bug of a loop one slot short: while idx < 63
FreeSlotShort == IF FindFree(0) >= NSlots - 1 THEN NSlots ELSE FindFree(0)

\* the slot add_memory installs the region in; NSlots when the loop runs out
FreeSlot == FindFree(0)

\* the bug of overwriting the total: self.total_size = size
TotalAfterAddReset(size) == AddW(0, size)

\* self.total_size += size
TotalAfterAdd(size) == AddW(total_size, size)

\* what one call of add_memory does to the allocator (BaseAllocator::add_memory)
AddMemoryStep(start, size) ==
    \E checks \in Profiles : \E idx \in {FreeSlot} :
    \E e \in {AddW(start, size)} : \E t \in {TotalAfterAdd(size)} :
    IF idx = NSlots
    THEN /\ ret' = Ret("add_memory", AddMemoryFullError, 0, 0, start, size)
         /\ UNCHANGED <<bitmap, regions, total_size, wrapped, fresh_slots,
                        overflow_checks>>
    ELSE IF checks = "on" /\ e.ovf
    THEN /\ ret' = Ret("add_memory", "Panic", 0, idx, start, size)
         /\ overflow_checks' = checks
         /\ UNCHANGED <<bitmap, regions, total_size, wrapped, fresh_slots>>
    ELSE /\ regions' = [regions EXCEPT ![idx] = Region(start, e.v, start)]
         /\ bitmap' = bitmap \cup {idx}
         /\ fresh_slots' = fresh_slots \cup {idx}
         /\ wrapped' = (wrapped \/ e.ovf \/ t.ovf)
         /\ overflow_checks' = ProfileAfter(checks, e.ovf \/ t.ovf)
         /\ IF checks = "on" /\ t.ovf
            THEN /\ ret' = Ret("add_memory", "Panic", 0, idx, start, size)
                 /\ UNCHANGED total_size
            ELSE /\ ret' = Ret("add_memory", "Ok", 0, idx, start, size)
                 /\ total_size' = t.v

add_memory(start, size) ==
    /\ Running
    /\ n_add < MaxAdds
    /\ n_add' = n_add + 1
    /\ AddMemoryStep(start, size)
    /\ UNCHANGED <<current_region, used_size, blocks, sum_sizes, n_init, n_alloc>>

\* ------------------------------------------------------------------ alloc
\* the bug of bumping from the unaligned cursor
AlignUpNoRound(next, align) == [v |-> next, ovf |-> FALSE]

\* (region.next + align - 1) & !(align - 1): the value, and whether the
\* addition overflowed
AlignUp(next, align) ==
    LET s == AddW(next, align)
        m == SubW(s.v, 1)
    IN [v |-> BitAnd(m.v, BitNot(align - 1)), ovf |-> s.ovf]

\* the bug of a strict bound: aligned_next + size < region.end
FitsStrict(aligned_end, end) == aligned_end < end

\* aligned_next + size <= region.end
Fits(aligned_end, end) == aligned_end <= end

\* the bug of counting the padding: self.used_size += aligned_next + size - region.next
UsedAfterWithPadding(aligned_next, next, size) ==
    AddW(used_size, size + ((aligned_next - next + Word) % Word))

\* self.used_size += size
UsedAfter(aligned_next, next, size) == AddW(used_size, size)

\* the body of the scan loop for one active region, given a = aligned_next,
\* e = aligned_next + size and u = used_size + size: "Miss" when the block does
\* not fit, else the outcome, the new cursor and the new counter
ProbeWith(region, checks, a, e, u) ==
    IF checks = "on" /\ a.ovf
    THEN [kind |-> "Panic", addr |-> 0, next |-> region.next, used |-> used_size,
          wrapped |-> TRUE]
    ELSE IF checks = "on" /\ e.ovf
    THEN [kind |-> "Panic", addr |-> 0, next |-> region.next, used |-> used_size,
          wrapped |-> TRUE]
    ELSE IF ~Fits(e.v, region.end)
    THEN [kind |-> "Miss", addr |-> 0, next |-> region.next, used |-> used_size,
          wrapped |-> a.ovf \/ e.ovf]
    ELSE IF checks = "on" /\ u.ovf
    THEN [kind |-> "Panic", addr |-> 0, next |-> e.v, used |-> used_size,
          wrapped |-> TRUE]
    ELSE IF a.v = 0
    THEN [kind |-> "Panic", addr |-> 0, next |-> e.v, used |-> u.v,
          wrapped |-> a.ovf \/ e.ovf \/ u.ovf]
    ELSE [kind |-> "Ok", addr |-> a.v, next |-> e.v, used |-> u.v,
          wrapped |-> a.ovf \/ e.ovf \/ u.ovf]

Probe(region, size, align, checks) ==
    CHOOSE p \in { ProbeWith(region, checks, a,
                             AddW(a.v, size), UsedAfter(a.v, region.next, size)) :
                   a \in {AlignUp(region.next, align)} } : TRUE

\* The scan loop, turn by turn.  Turn j (j = 0, 1, ..) tests
\* tried_regions != self.bitmap and then probes slot region_idx.
\* the bug of a scan that never advances region_idx
RegionIdxStuck(j) == current_region

\* region_idx at turn j: current_region advanced j times by (region_idx + 1) % 64
RegionIdxAt(j) == (current_region + j) % NSlots

\* tried_regions at the loop test of turn j
TriedAt(j) == { RegionIdxAt(i) : i \in 0 .. (j - 1) }

\* the loop test fails at turn j: tried_regions == self.bitmap.  (Up to turn
\* NSlots the j slots tried are distinct, so the first conjunct follows from the
\* second; it only spares building the set.)
LoopEndsAt(j) == j = Cardinality(bitmap) /\ TriedAt(j) = bitmap

\* the probe of turn j: "Miss" too when the bit of the slot is clear
ProbeAt(j, size, align, checks) ==
    IF RegionIdxAt(j) \in bitmap
    THEN Probe(regions[RegionIdxAt(j)], size, align, checks)
    ELSE [kind |-> "Miss", wrapped |-> FALSE]

\* the first turn at which the loop is left, by its test or by a return (or a
\* panic) from its body; NSlots when a whole cycle leaves it neither way
RECURSIVE FirstEnd(_, _, _, _)
FirstEnd(j, size, align, checks) ==
    IF j >= NSlots \/ LoopEndsAt(j) THEN j
    ELSE IF ProbeAt(j, size, align, checks).kind # "Miss" THEN j
    ELSE FirstEnd(j + 1, size, align, checks)

\* the outcome of the scan that is left at turn j.  From turn NSlots on every
\* slot has been tried, the test no longer changes and the probes repeat those
\* of the first cycle: if the test still holds there, the loop never ends ("Hang")
ScanResult(j, size, align, checks) ==
    IF LoopEndsAt(j)
    THEN [kind |-> AllocNoRoomError, addr |-> 0, slot |-> RegionIdxAt(j),
          bumped |-> FALSE, next |-> 0, used |-> used_size,
          wrapped |-> \E i \in 0 .. (j - 1) : ProbeAt(i, size, align, checks).wrapped,
          probes |-> j]
    ELSE IF j >= NSlots
    THEN [kind |-> "Hang", addr |-> 0, slot |-> 0, bumped |-> FALSE, next |-> 0,
          used |-> used_size, wrapped |-> FALSE, probes |-> NSlots]
    ELSE CHOOSE h \in
           { [kind |-> p.kind, addr |-> p.addr, slot |-> RegionIdxAt(j),
              bumped |-> TRUE, next |-> p.next, used |-> p.used,
              wrapped |-> \E i \in 0 .. j : ProbeAt(i, size, align, checks).wrapped,
              probes |-> j + 1] :
             p \in {ProbeAt(j, size, align, checks)} } : TRUE

\* while tried_regions != self.bitmap { .. } Err(NoMemory)
Scan(size, align, checks) ==
    CHOOSE r \in { ScanResult(j, size, align, checks) :
                   j \in {FirstEnd(0, size, align, checks)} } : TRUE

\* the bug of counting the bytes before the scan, whatever its outcome
AllocCoreCharged(size, align, checks) ==
    [Scan(size, align, checks) EXCEPT !.used = AddW(used_size, size).v]

\* ByteAllocator::alloc on the current state
AllocCore(size, align, checks) == Scan(size, align, checks)

\* a panic before the scan starts
PanicBeforeScan ==
    [kind |-> "Panic", addr |-> 0, slot |-> 0, bumped |-> FALSE, next |-> 0,
     used |-> used_size, wrapped |-> FALSE, probes |-> 0]

\* the state change and the return value of one allocation call, given the
\* layout and whether building it overflowed (pre_ovf) or was refused (~layout_ok)
AllocStep(op, a1, a2, size, align, pre_ovf, layout_ok) ==
    \E checks \in Profiles :
    \E r \in { IF (checks = "on" /\ pre_ovf) \/ ~layout_ok
               THEN PanicBeforeScan
               ELSE AllocCore(size, align, checks) } :
    /\ regions' = IF r.bumped /\ r.kind \in {"Ok", "Panic"}
                  THEN [regions EXCEPT ![r.slot].next = r.next]
                  ELSE regions
    /\ used_size' = r.used
    /\ ret' = [Ret(op, r.kind, r.addr, r.slot, a1, a2) EXCEPT !.probes = r.probes]
    /\ wrapped' = (wrapped \/ r.wrapped \/ pre_ovf)
    /\ overflow_checks' = ProfileAfter(checks, r.wrapped \/ pre_ovf)
    /\ blocks' = IF r.kind = "Ok"
                 THEN Append(blocks, [addr |-> r.addr, size |-> size, align |-> align])
                 ELSE blocks
    /\ sum_sizes' = IF r.kind = "Ok" THEN sum_sizes + size ELSE sum_sizes

alloc(size, align) ==
    /\ Running
    /\ n_alloc < MaxAllocs
    /\ LayoutValid(size, align)
    /\ n_alloc' = n_alloc + 1
    /\ AllocStep("alloc", size, align, size, align, FALSE, TRUE)
    /\ UNCHANGED <<bitmap, current_region, total_size, fresh_slots, n_init, n_add>>

\* the bug of a dealloc that gives the bytes back to the counter
DeallocReclaim(pos, size, align) ==
    /\ Running
    /\ ret' = Ret("dealloc", "Ok", 0, 0, 0, 0)
    /\ used_size' = SubW(used_size, size).v
    /\ UNCHANGED <<bitmap, regions, current_region, total_size,
                   overflow_checks, blocks, sum_sizes, wrapped, fresh_slots,
                   n_init, n_add, n_alloc>>

\* ByteAllocator::dealloc: the body is empty
dealloc(pos, size, align) ==
    /\ Running
    /\ ret' = Ret("dealloc", "Ok", 0, 0, 0, 0)
    /\ UNCHANGED <<bitmap, regions, current_region, total_size, used_size,
                   overflow_checks, blocks, sum_sizes, wrapped, fresh_slots,
                   n_init, n_add, n_alloc>>

\* ------------------------------------------------------------ alloc_pages
\* 1 << align_pow2 on usize
Shl1(align_pow2) ==
    [v |-> 2 ^ (align_pow2 % WordBits), ovf |-> align_pow2 >= WordBits]

\* the bug of taking the page count for a byte count
PagesSizeNoScale(num_pages) == MulW(num_pages, 1)

\* num_pages * Self::PAGE_SIZE
PagesSize(num_pages) == MulW(num_pages, PAGE_SIZE)

\* PageAllocator::alloc_pages
alloc_pages(num_pages, align_pow2) ==
    /\ Running
    /\ n_alloc < MaxAllocs
    /\ n_alloc' = n_alloc + 1
    /\ UNCHANGED <<bitmap, current_region, total_size, fresh_slots, n_init, n_add>>
    /\ \E m \in {PagesSize(num_pages)} : \E a \in {Shl1(align_pow2)} :
       AllocStep("alloc_pages", num_pages, align_pow2, m.v, a.v,
                 m.ovf \/ a.ovf, LayoutValid(m.v, a.v))

\* PageAllocator::dealloc_pages: the body is empty
dealloc_pages(pos, num_pages) ==
    /\ Running
    /\ ret' = Ret("dealloc_pages", "Ok", 0, 0, 0, 0)
    /\ UNCHANGED <<bitmap, regions, current_region, total_size, used_size,
                   overflow_checks, blocks, sum_sizes, wrapped, fresh_slots,
                   n_init, n_add, n_alloc>>

\* ------------------------------------------------------------------ inputs
\* (start, size) of the memory regions handed to init and add_memory, each
\* inside the address space: the scenario region 0x1000+0x100, one at address
\* zero and one ending near the top
RegionInputs == { <<4096, 256>>, <<0, 256>>, <<Word - 128, 64>> }

\* (size, align) of the layouts handed to alloc
AllocInputs == { <<8, 1>>, <<16, 16>>, <<240, 16>> }

\* (num_pages, align_pow2) handed to alloc_pages
PageInputs == { <<2, 7>> }

Next ==
    \/ \E r \in RegionInputs : init(r[1], r[2])
    \/ \E r \in RegionInputs : add_memory(r[1], r[2])
    \/ \E a \in AllocInputs : alloc(a[1], a[2])
    \/ \E p \in PageInputs : alloc_pages(p[1], p[2])
    \/ \E k \in DOMAIN blocks : dealloc(blocks[k].addr, blocks[k].size, blocks[k].align)
    \/ \E k \in DOMAIN blocks : dealloc_pages(blocks[k].addr, blocks[k].size \div PAGE_SIZE)

Spec == Init /\ [][Next]_vars

\* ---------------------------------------------------------- the full table
\* The same allocator driven to the capacity of its table: add_memory is
\* called up to FillCalls times with one small region, and init and alloc are
\* offered while the table is empty, or full or one short of full.
FillCalls == 2 * NSlots + 1

FillRegion == <<4352, 16>>

NearFull == bitmap = {} \/ Cardinality(bitmap) >= NSlots - 1

add_memory_fill(start, size) ==
    /\ Running
    /\ n_add < FillCalls
    /\ n_add' = n_add + 1
    /\ AddMemoryStep(start, size)
    /\ UNCHANGED <<current_region, used_size, blocks, sum_sizes, n_init, n_alloc>>

NextFull ==
    \/ add_memory_fill(FillRegion[1], FillRegion[2])
    \/ NearFull /\ init(4096, 256)
    \/ NearFull /\ alloc(16, 16)
    \/ NearFull /\ alloc(240, 16)

SpecFull == Init /\ [][NextFull]_vars

\* ------------------------------------------------------------------ claims
\* the step is a call of alloc, of alloc_pages, of add_memory
AllocCall == n_alloc' = n_alloc + 1 /\ ret'.op = "alloc"
PagesCall == n_alloc' = n_alloc + 1 /\ ret'.op = "alloc_pages"
AddCall == n_add' = n_add + 1

RegionsOverlap(r1, r2) == r1.start < r2.end /\ r2.start < r1.end

\* the active regions are pairwise disjoint
RegionsDisjoint ==
    \A i, j \in bitmap : i # j => ~RegionsOverlap(regions[i], regions[j])

BlocksOverlap(b1, b2) == b1.addr < b2.addr + b2.size /\ b2.addr < b1.addr + b1.size

\* block b lies inside [start, end) of one active region
InsideActiveRegion(b) ==
    \E i \in bitmap : regions[i].start <= b.addr /\ b.addr + b.size <= regions[i].end

C2_InitResets ==
    /\ (ret.op = "init" /\ ret.kind = "Ok") =>
          /\ total_bytes = ret.a2
          /\ used_bytes = 0
          /\ available_bytes = ret.a2
          /\ bitmap = {0}
          /\ regions[0] = Region(ret.a1, ret.a1 + ret.a2, ret.a1)
    /\ (n_init > 0 /\ ret.op \in {"alloc", "alloc_pages"} /\ ret.kind = "Ok") =>
          /\ ret.slot \in fresh_slots
          /\ ret.slot \in bitmap
    /\ n_init > 0 => bitmap = fresh_slots

\* an allocation served after an init that discarded a second region, itself
\* called after an earlier allocation
C2_Witness ==
    /\ n_init = 1 /\ n_add = 2 /\ n_alloc = 2
    /\ bitmap = {0}
    /\ regions[1].end # 0
    /\ ret.op = "alloc" /\ ret.kind = "Ok"
    /\ Len(blocks) = 1

\* C3: while the program runs, used_bytes() is the sum of the requested sizes
\* of the allocations that succeeded since the last init; skipped padding is
\* not in it.
C3_UsedIsSumOfSizes == Running => used_bytes = sum_sizes

\* one region whose cursor has moved further than used_bytes(): padding was skipped
C3_Witness ==
    /\ Running /\ ~wrapped
    /\ n_init = 1 /\ bitmap = {0}
    /\ Len(blocks) = 2
    /\ regions[0].next - regions[0].start > used_bytes
    /\ used_bytes > 0

\* C4: a call alloc(size, align) with size larger than available_bytes() fails
\* with the out-of-memory value.
C4_OversizedAllocFails ==
    [][(AllocCall /\ ret'.a1 > available_bytes) => ret'.kind = AllocNoRoomError]_vars

\* C5: add_memory succeeds exactly when fewer than NSlots slots are active and
\* then adds its size to total_bytes(); a failed call leaves the bitmap, the
\* regions and both counters as they were; on an allocator that was never
\* initialised the first NSlots calls succeed and the next one fails.
C5_AddMemoryCapacity ==
    [][AddCall =>
         /\ (ret'.kind = "Ok") <=> (Cardinality(bitmap) < NSlots)
         /\ ret'.kind = "Ok" =>
              /\ total_bytes' = total_bytes + ret'.a2
              /\ Cardinality(bitmap') = Cardinality(bitmap) + 1
         /\ ret'.kind # "Ok" =>
              /\ ret'.kind = AddMemoryFullError
              /\ UNCHANGED <<bitmap, regions, total_size, used_size>>
         /\ (n_init = 0 /\ n_add < NSlots) => ret'.kind = "Ok"
         /\ (n_init = 0 /\ n_add = NSlots) => ret'.kind # "Ok"]_vars

\* the call after the first NSlots calls on a new allocator has failed, and
\* total_bytes() is the sum of the NSlots sizes
C5_Witness ==
    /\ n_init = 0 /\ n_add = NSlots + 1
    /\ ret.op = "add_memory" /\ ret.kind = AddMemoryFullError
    /\ bitmap = Slots
    /\ total_bytes = NSlots * FillRegion[2]

\* C6: the failure value of add_memory on a full table is another error kind
\* than the failure value of an allocation that finds no room.
C6_DistinctErrorKinds ==
    (ret.op = "add_memory" /\ ret.kind \notin {"Ok", "Panic"}) =>
        ret.kind # AllocNoRoomError

\* C7: no call of alloc, alloc_pages or add_memory panics.
C7_NeverPanics ==
    ret.op \in {"alloc", "alloc_pages", "add_memory"} => ret.kind # "Panic"

\* the state after init(0x1000, 0x100); alloc(0x10, 0x10)
C8_AfterFirst ==
    /\ n_init = 1 /\ n_add = 0 /\ n_alloc = 1
    /\ regions[0].start = 4096 /\ regions[0].end = 4352
    /\ ret.op = "alloc" /\ ret.a1 = 16 /\ ret.a2 = 16

\* the state after init(0x1000, 0x100); alloc(0x10, 0x10); alloc(0xF0, 0x10)
C8_AfterSecond ==
    /\ n_init = 1 /\ n_add = 0 /\ n_alloc = 2
    /\ regions[0].start = 4096 /\ regions[0].end = 4352
    /\ Len(blocks) >= 1
    /\ blocks[1] = [addr |-> 4096, size |-> 16, align |-> 16]
    /\ ret.op = "alloc" /\ ret.a1 = 240 /\ ret.a2 = 16

\* C8 as stated: in the scenario the first allocation returns 0x1000 and leaves
\* used_bytes() = 0x10, and the second one, of the 0xF0 bytes left, fails.
C8_SecondAllocFails ==
    /\ C8_AfterFirst => (ret.kind = "Ok" /\ ret.addr = 4096 /\ used_bytes = 16)
    /\ C8_AfterSecond => ret.kind = AllocNoRoomError

\* C8 amended: in the scenario the first allocation returns 0x1000 and leaves
\* used_bytes() = 0x10, and the second one, of exactly the 0xF0 bytes left,
\* succeeds: it returns 0x1010 and leaves used_bytes() = 0x100 and
\* available_bytes() = 0.
C8_SecondAllocSucceeds ==
    /\ C8_AfterFirst => (ret.kind = "Ok" /\ ret.addr = 4096 /\ used_bytes = 16)
    /\ C8_AfterSecond =>
          /\ ret.kind = "Ok" /\ ret.addr = 4112
          /\ used_bytes = 256 /\ available_bytes = 0
          /\ regions[0].next = regions[0].end

C8_Witness == C8_AfterSecond /\ Len(blocks) = 2

\* align_up(r.next, align) + size <= r.end, over the integers
MathFits(r, size, align) ==
    (((r.next + align - 1) \div align) * align) + size <= r.end

\* C9: alloc fails with the out-of-memory value only when no active region has
\* room for the aligned block; and with two regions, when the first has no
\* room for the request and the second has, the call succeeds with a block
\* inside the second region.
C9_FallsThroughToNextRegion ==
    [][AllocCall =>
         /\ ret'.kind = AllocNoRoomError =>
              \A i \in bitmap : ~MathFits(regions[i], ret'.a1, ret'.a2)
         /\ ( /\ bitmap = {0, 1}
              /\ ~MathFits(regions[0], ret'.a1, ret'.a2)
              /\ MathFits(regions[1], ret'.a1, ret'.a2) ) =>
              /\ ret'.kind = "Ok"
              /\ ret'.slot = 1
              /\ regions[1].start <= ret'.addr
              /\ ret'.addr + ret'.a1 <= regions[1].end]_vars

DeallocCall == ret'.op \in {"dealloc", "dealloc_pages"}

C12_ScanTerminates ==
    ret.op \in {"alloc", "alloc_pages"} =>
        /\ ret.kind # "Hang"
        /\ ret.probes <= NSlots
        /\ ret.probes <= Cardinality(bitmap)
        /\ ret.kind = AllocNoRoomError => ret.probes = Cardinality(bitmap)
        /\ ret.kind = "Ok" => ret.probes = ret.slot + 1

\* the table is full, every region is too small for the request, and the call
\* has failed after NSlots turns
C12_Witness ==
    /\ ret.op = "alloc" /\ ret.kind = AllocNoRoomError
    /\ bitmap = Slots
    /\ ret.probes = NSlots
    /\ \A i \in Slots : regions[i].end - regions[i].next < ret.a1

\* C13: once an allocation has passed over slot 0, which had no room for it,
\* and has been served from a later slot, the scan of the next call of alloc
\* does not begin at slot 0.
C13_NextScanSkipsExhausted ==
    ( /\ ret.op \in {"alloc", "alloc_pages"} /\ ret.kind = "Ok"
      /\ ret.probes > 1 /\ ret.slot > 0 ) =>
        RegionIdxAt(0) # 0

\* start <= next <= end
CursorInside(r) == r.start <= r.next /\ r.next <= r.end

\* C14: after every step every active region has start <= next <= end, and a
\* step that is not a call of init does not decrease the next cursor of any
\* active region.
C14_CursorInsideAndMonotone ==
    [][ /\ \A i \in bitmap' : CursorInside(regions'[i])
        /\ n_init' = n_init =>
              \A i \in bitmap : regions'[i].next >= regions[i].next ]_vars

\* the sum of end - start over the active slots i, i + 1, .., NSlots - 1
RECURSIVE SumOfSizesFrom(_)
SumOfSizesFrom(i) ==
    IF i >= NSlots THEN 0
    ELSE (IF i \in bitmap THEN regions[i].end - regions[i].start ELSE 0)
         + SumOfSizesFrom(i + 1)

\* C15: in every state total_size is the sum of end - start over the active
\* regions, used_size is at most total_size, and available_bytes() is their
\* difference.
C15_TotalIsSumOfRegions ==
    /\ total_size = SumOfSizesFrom(0)
    /\ used_size <= total_size
    /\ available_bytes = total_size - used_size

\* C16: a call add_memory(start, size) succeeds whenever a slot is inactive,
\* whether or not the new region overlaps an active one; it installs
\* {start, start + size, start} in the lowest inactive slot, sets the bit of
\* that slot only, adds size to total_size, and leaves used_size, the cursor
\* hint and every other slot of the table as they were.
C16_AddMemoryFrame ==
    [][AddCall =>
         /\ bitmap # Slots => ret'.kind = "Ok"
         /\ ret'.kind = "Ok" =>
              /\ ret'.slot \notin bitmap
              /\ \A k \in 0 .. (ret'.slot - 1) : k \in bitmap
              /\ regions' = [regions EXCEPT ![ret'.slot] =
                                Region(ret'.a1, ret'.a1 + ret'.a2, ret'.a1)]
              /\ bitmap' = bitmap \cup {ret'.slot}
              /\ total_size' = total_size + ret'.a2
              /\ UNCHANGED <<used_size, current_region>>]_vars

\* a second region has been installed over the first one, whose cursor had
\* already moved
C16_Witness ==
    /\ ret.op = "add_memory" /\ ret.kind = "Ok" /\ ret.slot = 1
    /\ bitmap = {0, 1}
    /\ RegionsOverlap(regions[0], regions[1])
    /\ regions[0].next > regions[0].start
    /\ regions[1] = Region(ret.a1, ret.a1 + ret.a2, ret.a1)
    /\ total_size = (regions[0].end - regions[0].start) + ret.a2
    /\ used_size > 0

\* the byte size the call that returned r asked for
RequestedSize(r) == IF r.op = "alloc_pages" THEN r.a1 * PAGE_SIZE ELSE r.a1

C18_NoWrapPastEnd ==
    (ret.op \in {"alloc", "alloc_pages"} /\ ret.kind = "Ok") =>
        /\ regions[ret.slot].start <= ret.addr
        /\ ret.addr + RequestedSize(ret) <= regions[ret.slot].end

\* tried_regions after j turns of a scan that starts at slot c
TriedFrom(c, j) == { (c + i) % NSlots : i \in 0 .. (j - 1) }

\* a scan that starts at slot c over the bitmap b can meet its exit test
\* tried_regions == b: the slots of up to NSlots turns are distinct, so only
\* the turn that has tried as many slots as b holds can meet it, and later
\* turns repeat the test of turn NSlots
ExitReachable(c, b) == TriedFrom(c, Cardinality(b)) = b

\* C19: in every state the active slots are exactly the n lowest ones, for
\* some n from 0 to NSlots, and current_region is 0, so the scan can meet its
\* exit test; it could not meet it with a lower bit of the bitmap cleared,
\* nor, unless the bitmap is empty or full, from a start other than slot 0.
C19_BitmapIsLowPrefix ==
    /\ bitmap = 0 .. (Cardinality(bitmap) - 1)
    /\ current_region = 0
    /\ ExitReachable(current_region, bitmap)
    /\ \A k \in bitmap :
          (k + 1) \in bitmap => ~ExitReachable(current_region, bitmap \ {k})
    /\ bitmap \notin {{}, Slots} => ~ExitReachable(1, bitmap)

\* all slots but the last are active and a scan has ended by its exit test
C19_Witness ==
    /\ bitmap = 0 .. (NSlots - 2)
    /\ current_region = 0
    /\ ret.op = "alloc" /\ ret.kind = AllocNoRoomError
    /\ ret.probes = NSlots - 1

\* the sum of next - start over the active slots i, i + 1, .., NSlots - 1
RECURSIVE SumOfBumpedFrom(_)
SumOfBumpedFrom(i) ==
    IF i >= NSlots THEN 0
    ELSE (IF i \in bitmap THEN regions[i].next - regions[i].start ELSE 0)
         + SumOfBumpedFrom(i + 1)

\* C20: in every state used_size is at most the sum of next - start over the
\* active regions, the difference being padding, so the space really left,
\* the sum of end - next, is at most available_bytes().
C20_UsedAtMostBumped ==
    /\ used_size <= SumOfBumpedFrom(0)
    /\ SumOfSizesFrom(0) - SumOfBumpedFrom(0) <= available_bytes
====
